---- MODULE Spec2Model ----
(***************************************************************************)
(* Model of pyfda/plot_widgets/plot_impz.py: the PlotImpz widget, which    *)
(* computes a stimulus x[n], filters it with the filter of the filter      *)
(* dictionary fb.fil[0] and draws the response.                            *)
(*                                                                         *)
(* Number representation.  Samples are floats in the source.  Here a       *)
(* sample is an integer count of 1/Scale, and a complex sample is a pair   *)
(* <<re, im>> of such counts.  Filter coefficients, amplitudes, DC and     *)
(* noise levels are plain integers; every filter of the input domain has   *)
(* a[0] = 1 and a DC gain that is an integer, so that all arithmetic of    *)
(* the source is exact in this representation.  Angles are counted in      *)
(* quarter cycles (pi/2), where cos, sin and sawtooth have exact values.   *)
(***************************************************************************)
EXTENDS Integers, Sequences, FiniteSets, TLC

\* ------------------------------------------------------------------------
\* Number representation
\* ------------------------------------------------------------------------

\* one unit of a sample is 1/Scale
Scale == 4

\* one unit of the time axis is 1/TimeScale seconds
TimeScale == 2

Abs(v) == IF v < 0 THEN -v ELSE v

Min(u, v) == IF u <= v THEN u ELSE v

Max(u, v) == IF u >= v THEN u ELSE v

\* a sequence given by its elements, as an evaluated array
Arr(f) == f \o <<>>

C0 == <<0, 0>>

CAdd(u, v) == <<u[1] + v[1], u[2] + v[2]>>

CSub(u, v) == <<u[1] - v[1], u[2] - v[2]>>

CMul(u, v) == <<u[1] * v[1] - u[2] * v[2], u[1] * v[2] + u[2] * v[1]>>

\* product of a complex number and a real one
CScale(k, u) == <<k * u[1], k * u[2]>>

\* quotient of a complex number by a real one (exact on the input domain)
CDivR(u, k) == <<u[1] \div k, u[2] \div k>>

\* a real sequence seen as a complex one
ToComplex(xs) == Arr([i \in 1..Len(xs) |-> <<xs[i], 0>>])

RealPart(ys) == Arr([i \in 1..Len(ys) |-> ys[i][1]])

ImagPart(ys) == Arr([i \in 1..Len(ys) |-> ys[i][2]])

Reverse(s) == Arr([i \in 1..Len(s) |-> s[Len(s) + 1 - i]])

\* the sum of the elements lo..hi of a sequence of numbers, by halving
RECURSIVE SumRange(_, _, _)
SumRange(s, lo, hi) ==
    IF lo > hi THEN 0
    ELSE IF lo = hi THEN s[lo]
    ELSE LET mid == (lo + hi) \div 2
         IN  SumRange(s, lo, mid) + SumRange(s, mid + 1, hi)

SumSeq(s) == SumRange(s, 1, Len(s))

\* the sum of a sequence of complex numbers
CSumSeq(s) == <<SumSeq(RealPart(s)), SumSeq(ImagPart(s))>>

\* the integer r >= 0 with r * r = v (the magnitudes of the input domain
\* are perfect squares)
Isqrt(v) == CHOOSE r \in 0..v : r * r = v

\* |c| for a complex number c
CAbs(c) == Isqrt(c[1] * c[1] + c[2] * c[2])

\* ------------------------------------------------------------------------
\* scipy.signal.lfilter: direct form II transposed
\* ------------------------------------------------------------------------

\* coefficient i (1-based) of a zero-padded complex coefficient vector
Coef(c, i) == IF i <= Len(c) THEN c[i] ELSE C0

\* coefficient i (1-based) of a zero-padded real coefficient vector
RCoef(c, i) == IF i <= Len(c) THEN c[i] ELSE 0

\* one sample through the direct form II transposed structure with delay
\* line z (n - 1 complex values); b and a are normalised by a[0]
LfilterStep(b, a, n, z, xm) ==
    LET a0 == a[1]
        ym == CDivR(CAdd(CMul(Coef(b, 1), xm), IF n > 1 THEN z[1] ELSE C0), a0)
        zn == Arr([i \in 1..(n - 1) |->
                     CAdd(CSub(CDivR(CMul(Coef(b, i + 1), xm), a0),
                               CDivR(CScale(RCoef(a, i + 1), ym), a0)),
                          IF i < n - 1 THEN z[i + 1] ELSE C0)])
    IN  [y |-> ym, z |-> zn]

\* the samples lo..hi of x through the structure, started with delay line
\* z: the outputs and the final delay line.  The range is halved so that the
\* evaluation nests only log(hi - lo) deep; the samples are still processed
\* in order, each from its predecessor's delay line.
RECURSIVE LfilterRun(_, _, _, _, _, _)
LfilterRun(b, a, xin, z, lo, hi) ==
    IF lo > hi
    THEN [y |-> <<>>, zf |-> z]
    ELSE IF lo = hi
    THEN LET s == LfilterStep(b, a, Max(Len(a), Len(b)), z, xin[lo])
         IN  [y |-> <<s.y>>, zf |-> s.z]
    ELSE LET mid   == (lo + hi) \div 2
             left  == LfilterRun(b, a, xin, z, lo, mid)
             right == LfilterRun(b, a, xin, left.zf, mid + 1, hi)
         IN  [y |-> left.y \o right.y, zf |-> right.zf]

\* lfilter(b, a, xin, zi = zi): the filtered sequence
LfilterZi(b, a, xin, zi) == LfilterRun(b, a, xin, zi, 1, Len(xin)).y

\* lfilter(b, a, xin): zero initial state
lfilter(b, a, xin) ==
    LfilterZi(b, a, xin, Arr([i \in 1..(Max(Len(a), Len(b)) - 1) |-> C0]))

\* scipy.signal.lfilter_zi: the delay line of the step response's steady
\* state, zi[0] = sum(B) / sum(a), zi[k] = asum * zi[0] - csum, with
\* B = b[1:] - a[1:] * b[0]
lfilter_zi(b, a) ==
    LET n    == Max(Len(a), Len(b))
        B(j) == CSub(Coef(b, j + 1), CScale(RCoef(a, j + 1), Coef(b, 1)))
        zi0  == CDivR(CSumSeq([j \in 1..(n - 1) |-> B(j)]),
                      SumSeq([j \in 1..n |-> RCoef(a, j)]))
    IN  Arr([k \in 1..(n - 1) |->
               IF k = 1 THEN zi0
               ELSE CSub(CScale(SumSeq([j \in 1..k |-> RCoef(a, j)]), zi0),
                         CSumSeq([j \in 1..(k - 1) |-> B(j)]))])

\* scipy.signal.filtfilt(b, a, xin, -1, None): forward-backward filtering
\* without padding (padtype None), each pass started from the steady state
\* scaled by the first sample it sees
filtfilt(b, a, xin) ==
    LET zi  == lfilter_zi(b, a)
        fwd == LfilterZi(b, a, xin, Arr([k \in DOMAIN zi |-> CMul(zi[k], xin[1])]))
        y0  == fwd[Len(fwd)]
        bwd == LfilterZi(b, a, Reverse(fwd),
                         Arr([k \in DOMAIN zi |-> CMul(zi[k], y0)]))
    IN  Reverse(bwd)

\* scipy.signal.sosfilt(sos, xin): the sections applied one after the other,
\* each a biquad <<b0, b1, b2, a0, a1, a2>> fed with its predecessor's output
RECURSIVE sosfilt(_, _)
sosfilt(sos, xin) ==
    IF sos = <<>> THEN xin
    ELSE sosfilt(Tail(sos),
                 lfilter(ToComplex(SubSeq(sos[1], 1, 3)), SubSeq(sos[1], 4, 6), xin))

\* abs(sig.freqz(b, a, [0])[1]): |H(0)| = |sum(b)| / |sum(a)|
DcGain(b, a) == CAbs(CSumSeq(b)) \div Abs(SumSeq(a))

\* ------------------------------------------------------------------------
\* Waveforms on the quarter-cycle grid
\* ------------------------------------------------------------------------

\* the angle 2 * pi * t * f in quarter cycles: t in units of 1/TimeScale s,
\* f (normalised frequency, self.f1 / self.f2) in quarter cycles per second
Quarter(tt, f) == (tt * f) \div TimeScale

\* Scale * np.cos of an angle of q quarter cycles
Cos(q) == CASE q % 4 = 0 -> Scale
            [] q % 4 = 2 -> -Scale
            [] OTHER     -> 0

\* Scale * np.sin of an angle of q quarter cycles
Sin(q) == CASE q % 4 = 1 -> Scale
            [] q % 4 = 3 -> -Scale
            [] OTHER     -> 0

\* Scale * np.sign(np.sin(.)) of an angle of q quarter cycles.  At a zero
\* crossing other than the angle 0.0 the double-precision sine is a residue
\* of the rounding of pi: positive at odd multiples of pi, negative at even
\* ones.
SignSin(q) == CASE q = 0     -> 0
                [] q % 4 = 1 -> Scale
                [] q % 4 = 2 -> Scale
                [] OTHER     -> -Scale

\* Scale * scipy.signal.sawtooth of an angle of q quarter cycles: the ramp
\* tmod / pi - 1 from -1 to 1 over one period
Sawtooth(q) == ((q % 4) * Scale) \div 2 - Scale

\* 10 ** (k / 20) for k = 0..19, in thousandths
DbSteps ==
    <<1000, 1122, 1259, 1413, 1585, 1778, 1995, 2239, 2512, 2818,
      3162, 3548, 3981, 4467, 5012, 5623, 6310, 7079, 7943, 8913>>

Pow10(e) == CASE e = 0 -> 1 [] e = 1 -> 10 [] e = 2 -> 100 [] e = 3 -> 1000
              [] e = 4 -> 10000 [] OTHER -> 100000

\* 20 * np.log10(m / Scale) for a magnitude m >= 1, rounded down to a whole
\* dB: the largest d = 20 * (e - 1) + k with 10 ** (d / 20) <= m / Scale
Log20(m) ==
    LET ok(d) == LET e == d \div 20
                     k == d % 20
                 IN  m * 10000 >= Scale * DbSteps[k + 1] * Pow10(e)
        \* d is counted from -20 dB (e = 0) upwards
        ds == {d \in 0..99 : ok(d)}
    IN  (CHOOSE d \in ds : \A d2 \in ds : d2 <= d) - 20

\* np.maximum(20 * np.log10(abs(v)), bottom) for one sample v;
\* log10(0) is -inf, so that a zero sample is drawn at the bottom
LogSample(v, bot) ==
    IF v = 0 THEN bot ELSE Max(Log20(Abs(v)), bot)

\* ------------------------------------------------------------------------
\* PlotImpz.calc_n_points
\* ------------------------------------------------------------------------

\* the automatic point count of an IIR filter and the cap of an FIR one
AutoPoints == 100

\* calc_n_points without the cap of the FIR point count
calc_n_points_uncapped(N_user, fl) ==
    IF N_user = 0
    THEN IF fl.ft = "IIR"
         THEN AutoPoints
         ELSE Len(fl.ba[1])
    ELSE N_user

calc_n_points(N_user, fl) ==
    IF N_user = 0
    THEN IF fl.ft = "IIR"
         THEN AutoPoints
         ELSE Min(Len(fl.ba[1]), AutoPoints)
    ELSE N_user

\* the stimulus kinds calc knows
StimNames == {"Pulse", "Step", "StepErr", "Cos", "Sine", "Rect", "Saw"}

\* the total point count of a request
TotalPoints(u, fl) ==
    (IF u.N_points = 0 THEN calc_n_points(u.N_points, fl) ELSE u.N_points)
    + u.N_start

\* ------------------------------------------------------------------------
\* The inputs: filter dictionaries fb.fil[0] and settings of the UI
\* ------------------------------------------------------------------------

\* the largest point count and start offset a user enters
MaxNPoints == 2

MaxNStart == 1

\* number of coefficients of the long FIR filter (more than AutoPoints)
LongTaps == 150

\* fb.fil[0]: 'ba' (b complex, a real), 'sos', whether the key 'zpkA' is
\* present, 'ft' and 'f_S'
Fil(b, a, sos, zpkA, ft, f_S) ==
    [ba |-> <<b, a>>, sos |-> sos, zpkA |-> zpkA, ft |-> ft, f_S |-> f_S]

FilEmpty == Fil(<<>>, <<1>>, <<>>, FALSE, "FIR", 1)

FilId1 == Fil(ToComplex(<<1>>), <<1>>, <<>>, FALSE, "FIR", 1)

FilId2 == Fil(ToComplex(<<1, 0>>), <<1, 0>>, <<>>, FALSE, "FIR", 1)

FilFir == Fil(ToComplex(<<2, 1>>), <<1, 0>>, <<>>, FALSE, "FIR", 1)

FilFir3 == Fil(ToComplex(<<1, 2, 1>>), <<1, 0, 0>>, <<>>, FALSE, "FIR", 2)

FilIir == Fil(ToComplex(<<2, 0>>), <<1, 1>>, <<>>, FALSE, "IIR", 1)

FilSos ==
    Fil(ToComplex(<<1, 0, -1>>), <<1, 0, 0>>,
        <<(<<1, 1, 0, 1, 0, 0>>), (<<1, -1, 0, 1, 0, 0>>)>>, FALSE, "FIR", 1)

FilAnti == Fil(ToComplex(<<2, 1>>), <<1, 0>>, <<>>, TRUE, "FIR", 1)

FilAntiSos ==
    Fil(ToComplex(<<2, 0>>), <<1, 1>>, <<(<<2, 0, 0, 1, 1, 0>>)>>, TRUE, "IIR", 1)

FilCplx == Fil(<<(<<3, 0>>), (<<0, 4>>)>>, <<1, 0>>, <<>>, FALSE, "FIR", 1)

FilLong ==
    Fil(ToComplex([k \in 1..LongTaps |-> IF k <= 2 THEN 1 ELSE 0]),
        Arr([k \in 1..LongTaps |-> IF k = 1 THEN 1 ELSE 0]), <<>>, FALSE, "FIR", 1)

\* the settings calc and draw_impz read from self.ui
UiDefault ==
    [N_points |-> 0, N_start |-> 0, stim |-> "Pulse",
     A1 |-> 1, A2 |-> 1, phi1 |-> 0, phi2 |-> 1,
     noise |-> "none", noi |-> 1, DC |-> 0, ledDC_visible |-> FALSE,
     chkLog |-> FALSE, chkPltResp |-> TRUE, chkPltStim |-> FALSE]

\* a request: the settings and the filter a handler finds
Req(u, fl) == [ui |-> u, fil |-> fl]

\* automatic point counts for a short FIR, a long FIR and an IIR filter, and
\* entered point counts, with every start offset
ReqPoints ==
    {Req([UiDefault EXCEPT !.N_start = ns, !.stim = "Step"], fl) :
       ns \in 0..MaxNStart, fl \in {FilFir, FilIir, FilLong}}
    \cup
    {Req([UiDefault EXCEPT !.N_points = np, !.N_start = ns, !.stim = "Step"],
         FilFir) :
       np \in 1..MaxNPoints, ns \in 0..MaxNStart}

\* configurations calc does not accept: a stimulus it does not know, and
\* coefficient arrays with fewer than two entries
ReqInvalid ==
    {Req([UiDefault EXCEPT !.N_points = 1, !.stim = ""], FilFir),
     Req(UiDefault, FilEmpty),
     Req([UiDefault EXCEPT !.N_start = MaxNStart, !.stim = "Step"], FilEmpty)}

\* every filtering mode, and complex coefficients
ReqModes ==
    {Req([UiDefault EXCEPT !.N_points = MaxNPoints + 1], fl) :
       fl \in {FilFir3, FilSos, FilAnti, FilAntiSos, FilCplx}}

\* every stimulus kind through the identity filter in its padded form, and
\* one through its one-coefficient form
ReqStimuli ==
    {Req([UiDefault EXCEPT !.N_points = MaxNPoints + 2, !.stim = st,
                           !.A1 = 2], FilId2) :
       st \in StimNames}
    \cup
    {Req([UiDefault EXCEPT !.N_points = MaxNPoints + 2, !.stim = st,
                           !.A1 = 2], FilId1) :
       st \in {"Sine"}}

\* DC offsets, with the DC field visible or not
ReqDC ==
    {Req([UiDefault EXCEPT !.N_points = MaxNPoints, !.N_start = MaxNStart,
                           !.stim = "Step", !.DC = dc, !.ledDC_visible = vis],
         FilFir) :
       dc \in {1, -2}, vis \in BOOLEAN}

\* noise kinds, with and without a startup region
ReqNoise ==
    {Req([UiDefault EXCEPT !.N_points = 1, !.N_start = ns, !.stim = "Step",
                           !.noise = nk], FilFir) :
       ns \in {0, MaxNStart}, nk \in {"gauss", "uniform"}}

\* display settings
ReqDisplay ==
    {Req([UiDefault EXCEPT !.N_points = MaxNPoints, !.N_start = MaxNStart,
                           !.chkLog = lg], fl) :
       lg \in BOOLEAN, fl \in {FilFir, FilCplx}}
    \cup
    {Req([UiDefault EXCEPT !.N_points = MaxNPoints, !.N_start = MaxNStart,
                           !.chkLog = lg, !.chkPltResp = lg,
                           !.chkPltStim = TRUE], FilFir) :
       lg \in BOOLEAN}

Requests ==
    ReqPoints \cup ReqInvalid \cup ReqModes \cup ReqStimuli \cup ReqDC
    \cup ReqNoise \cup ReqDisplay

\* the normalised frequencies self.f1 and self.f2 take, in quarter cycles
\* per second
FreqVals == {1, 2}

\* the floors (in dB) a user configures for the log display
Floors == {-80, -10}

\* ------------------------------------------------------------------------
\* PlotImpz.calc
\* ------------------------------------------------------------------------

\* self.title_str of a known stimulus
TitleOf(stim) ==
    CASE stim = "Pulse"   -> "Impulse Response"
      [] stim = "Step"    -> "Step Response"
      [] stim = "StepErr" -> "Settling Error"
      [] stim = "Cos"     -> "Transient Response to Cosine Signal"
      [] stim = "Sine"    -> "Transient Response to Sinusoidal Signal"
      [] stim = "Rect"    -> "Transient Response to Rect. Signal"
      [] stim = "Saw"     -> "Transient Response to Sawtooth Signal"

\* self.H_str of a known stimulus
LabelOf(stim) ==
    CASE stim = "Pulse"   -> "$h[n]$"
      [] stim = "Step"    -> "$h_{\\epsilon}[n]$"
      [] stim = "StepErr" -> "$h_{\\epsilon, \\infty} - h_{\\epsilon}[n]$"
      [] stim = "Cos"     -> "$y_{\\cos}[n]$"
      [] stim = "Sine"    -> "$y_{\\sin}[n]$"
      [] stim = "Rect"    -> "$y_{rect}[n]$"
      [] stim = "Saw"     -> "$y_{saw}[n]$"

\* np.linspace(0, N / f_S, N, endpoint = False)
TimeAxis(Nn, f_S) == Arr([n \in 1..Nn |-> ((n - 1) * TimeScale) \div f_S])

\* the stimulus of a known kind over a time axis tt of at least one sample
Waveform(u, tt, f1v, f2v) ==
    Arr([n \in 1..Len(tt) |->
       CASE u.stim = "Pulse"   -> IF n = 1 THEN u.A1 * Scale ELSE 0
         [] u.stim = "Step"    -> u.A1 * Scale
         [] u.stim = "StepErr" -> u.A1 * Scale
         [] u.stim = "Cos"     -> u.A1 * Cos(Quarter(tt[n], f1v))
         [] u.stim = "Sine"    -> u.A1 * Sin(Quarter(tt[n], f1v) + u.phi1)
                                  + u.A2 * Sin(Quarter(tt[n], f2v) + u.phi2)
         [] u.stim = "Rect"    -> u.A1 * SignSin(Quarter(tt[n], f1v))
         [] u.stim = "Saw"     -> u.A1 * Sawtooth(Quarter(tt[n], f1v))])

\* np.random.randn draws and np.random.rand draws, in units of 1/Scale
RandnVals == {-Scale, Scale}

RandVals == {0, 3}

\* the sequences of draws one calc can consume: N - N_start of them when a
\* noise kind is selected, none otherwise
DrawsOf(u, Nn) ==
    CASE u.noise = "gauss"   -> [1..(Nn - u.N_start) -> RandnVals]
      [] u.noise = "uniform" -> [1..(Nn - u.N_start) -> RandVals]
      [] OTHER               -> {<<>>}

\* noise that does not spare the startup region: its samples take the first
\* draw
AddNoiseAll(u, xs, rv) ==
    CASE u.noise = "gauss" ->
           Arr([n \in 1..Len(xs) |->
                  xs[n] + u.noi * rv[IF n > u.N_start THEN n - u.N_start ELSE 1]])
      [] u.noise = "uniform" ->
           Arr([n \in 1..Len(xs) |->
                  xs[n] + u.noi * (rv[IF n > u.N_start THEN n - u.N_start ELSE 1]
                                   - Scale \div 2)])
      [] OTHER -> xs

\* self.x[N_start:] += noi * randn(N - N_start), or noi * (rand(..) - 0.5)
AddNoise(u, xs, rv) ==
    CASE u.noise = "gauss" ->
           Arr([n \in 1..Len(xs) |->
                  IF n > u.N_start
                  THEN xs[n] + u.noi * rv[n - u.N_start]
                  ELSE xs[n]])
      [] u.noise = "uniform" ->
           Arr([n \in 1..Len(xs) |->
                  IF n > u.N_start
                  THEN xs[n] + u.noi * (rv[n - u.N_start] - Scale \div 2)
                  ELSE xs[n]])
      [] OTHER -> xs

\* the truth value of the attribute self.ui.ledDC.isVisible: the bound
\* method itself (it is not called), which is true whatever the widget's
\* visibility
IsVisibleAttr(visible) == TRUE

\* if self.ui.ledDC.isVisible: self.x += self.ui.DC
AddDC(u, xs) ==
    IF IsVisibleAttr(u.ledDC_visible)
    THEN Arr([n \in 1..Len(xs) |-> xs[n] + u.DC * Scale])
    ELSE xs

\* a selection that tests for second-order sections only, so that an
\* anti-causal filter with sections goes through the cascade
FilterModeSosFirst(fl) ==
    IF Len(fl.sos) > 0 THEN "sosfilt"
    ELSE IF fl.zpkA THEN "filtfilt"
    ELSE "lfilter"

\* which scipy routine filters: the if / elif / else of calc
FilterMode(fl) ==
    IF Len(fl.sos) > 0 /\ ~fl.zpkA THEN "sosfilt"
    ELSE IF fl.zpkA THEN "filtfilt"
    ELSE "lfilter"

\* the raw response of the selected routine
Response(fl, xs) ==
    LET md == FilterMode(fl)
    IN  CASE md = "sosfilt"  -> sosfilt(fl.sos, ToComplex(xs))
          [] md = "filtfilt" -> filtfilt(fl.ba[1], fl.ba[2], ToComplex(xs))
          [] OTHER           -> lfilter(fl.ba[1], fl.ba[2], ToComplex(xs))

\* the DC gain subtracted for every stimulus kind
SubtractDcAlways(u, fl, ys) ==
    LET dc == Scale * DcGain(fl.ba[1], fl.ba[2])
    IN  Arr([n \in 1..Len(ys) |-> <<ys[n][1] - dc, ys[n][2]>>])

\* y = y - abs(dc[1]) for the settling error
SubtractDc(u, fl, ys) ==
    IF u.stim = "StepErr"
    THEN LET dc == Scale * DcGain(fl.ba[1], fl.ba[2])
         IN  Arr([n \in 1..Len(ys) |-> <<ys[n][1] - dc, ys[n][2]>>])
    ELSE ys

\* np.any(np.iscomplex(np.real_if_close(y, tol = 1e3))): an imaginary part
\* that is not zero is at least 1/Scale, far above 1000 machine epsilons
IsComplex(ys) == \E n \in 1..Len(ys) : ys[n][2] # 0

\* the stimulus of a request with a known kind and at least one point:
\* waveform, then noise, then DC
Stimulus(u, fl, f1v, f2v, rv) ==
    AddDC(u, AddNoise(u, Waveform(u, TimeAxis(TotalPoints(u, fl), fl.f_S),
                                  f1v, f2v), rv))

\* whether calc reaches the filtering of a request
Filterable(u, fl) ==
    /\ u.stim \in StimNames
    /\ TotalPoints(u, fl) > 0
    /\ Min(Len(fl.ba[2]), Len(fl.ba[1])) >= 2

\* the response of calc before the split into real and imaginary part, for
\* every request of the input domain whose filtering calc reaches (the
\* responses are evaluated once and looked up by calc)
Filtered ==
    [k \in UNION {{<<r.ui, r.fil, fa, fb, rn>> :
                     fa \in FreqVals, fb \in FreqVals,
                     rn \in DrawsOf(r.ui, TotalPoints(r.ui, r.fil))} :
                  r \in {q \in Requests : Filterable(q.ui, q.fil)}} |->
       SubtractDc(k[1], k[2],
                  Response(k[2], Stimulus(k[1], k[2], k[3], k[4], k[5])))]

\* calc, lines 219-227: self.N and self.t
CalcTimeAxis(s, u, fl) ==
    [self   |-> [s EXCEPT !.N = TotalPoints(u, fl),
                          !.t = TimeAxis(TotalPoints(u, fl), fl.f_S),
                          !.attrs = @ \cup {"N", "t"}],
     logged |-> "none", raised |-> "none", filt |-> "none", ended |-> FALSE]

\* calc, lines 229-280, on the outcome r of the lines before: the stimulus
\* with its title and label, then noise and DC; the Pulse of no sample
\* raises (self.x = np.zeros(0); self.x[0] = A1), an unknown kind is logged
\* and calc returns
CalcStimulus(r, u, f1v, f2v, rv) ==
    CASE u.stim = "Pulse" /\ r.self.N = 0 ->
           [r EXCEPT !.self.x = <<>>, !.self.attrs = @ \cup {"x"},
                     !.raised = "IndexError", !.ended = TRUE]
      [] u.stim \notin StimNames ->
           [r EXCEPT !.logged = "Unknown stimulus", !.ended = TRUE]
      [] OTHER ->
           [r EXCEPT !.self.x =
                        AddDC(u, AddNoise(u, Waveform(u, r.self.t, f1v, f2v), rv)),
                     !.self.title_str = TitleOf(u.stim),
                     !.self.H_str = LabelOf(u.stim),
                     !.self.attrs = @ \cup {"x", "title_str", "H_str"}]

\* calc, lines 306-313, on the filtered sequence yc: the split into real and
\* imaginary part
StoreResponse(r, fl, yc) ==
    [r EXCEPT !.self.y = RealPart(yc),
              !.self.y_i = IF IsComplex(yc) THEN ImagPart(yc) ELSE <<>>,
              !.self.cmplx = IsComplex(yc),
              !.self.attrs = @ \cup {"y", "y_i", "cmplx"},
              !.filt = FilterMode(fl),
              !.ended = TRUE]

\* calc, lines 282-313, on the outcome r of the lines before: nothing when
\* calc has ended there (r.ended); coefficient arrays with fewer than two
\* entries are logged and calc returns; otherwise the response
CalcResponse(r, u, fl, f1v, f2v, rv) ==
    IF r.ended
    THEN r
    ELSE IF Min(Len(fl.ba[2]), Len(fl.ba[1])) < 2
    THEN [r EXCEPT !.logged = "No proper filter coefficients",
                   !.ended = TRUE]
    ELSE StoreResponse(r, fl, Filtered[<<u, fl, f1v, f2v, rv>>])

\* calc() on the fields s with the settings u, the filter fl, the stored
\* frequencies and the random draws rv: the fields afterwards, what was
\* logged, what was raised and the filter routine called
calc(s, u, fl, f1v, f2v, rv) ==
    CalcResponse(CalcStimulus(CalcTimeAxis(s, u, fl), u, f1v, f2v, rv),
                 u, fl, f1v, f2v, rv)

\* ------------------------------------------------------------------------
\* PlotImpz.draw_impz
\* ------------------------------------------------------------------------

\* arr[N_start:]
From(arr, N_start) == SubSeq(arr, N_start + 1, Len(arr))

\* the canvas with cleared axes
NoPlot ==
    [t |-> <<>>, y |-> <<>>, y_i |-> <<>>, x |-> <<>>, title |-> "",
     log |-> FALSE, bottom |-> 0, drawn |-> FALSE]

\* draw_impz() on the fields s with the settings u and the floor ui.bottom:
\* the canvas, ui.bottom afterwards and what was raised
draw_impz(s, u, bot, old) ==
    LET bot2  == IF u.chkLog THEN bot ELSE 0
        yd    == IF u.chkLog
                 THEN Arr([n \in 1..Len(s.y) |-> LogSample(s.y[n], bot)])
                 ELSE s.y
        yid   == IF u.chkLog /\ s.cmplx
                 THEN Arr([n \in 1..Len(s.y_i) |-> LogSample(s.y_i[n], bot)])
                 ELSE s.y_i
        tcut  == From(s.t, u.N_start)
        badY  == u.chkPltResp /\ Len(tcut) # Len(From(yd, u.N_start))
        badX  == u.chkPltStim /\ Len(tcut) # Len(From(s.x, u.N_start))
    IN  IF "cmplx" \notin s.attrs
        THEN \* init_axes reads self.cmplx
             [plot |-> old, bottom |-> bot, raised |-> "AttributeError"]
        ELSE IF badY \/ badX
        THEN \* stem() of two arrays of different lengths
             [plot |-> NoPlot, bottom |-> bot2, raised |-> "ValueError"]
        ELSE [plot |-> [t |-> tcut,
                        y |-> IF u.chkPltResp THEN From(yd, u.N_start) ELSE <<>>,
                        y_i |-> IF u.chkPltResp /\ s.cmplx
                                THEN From(yid, u.N_start) ELSE <<>>,
                        x |-> IF u.chkPltStim THEN From(s.x, u.N_start) ELSE <<>>,
                        title |-> s.title_str,
                        log |-> u.chkLog, bottom |-> bot2, drawn |-> TRUE],
              bottom |-> bot2, raised |-> "none"]

\* ------------------------------------------------------------------------
\* The widget
\* ------------------------------------------------------------------------

VARIABLES
    ui,         \* the settings of self.ui read by calc and draw_impz
    fil,        \* fb.fil[0]
    enabled,    \* self.mplwidget.mplToolbar.enabled
    bottom,     \* self.ui.bottom
    floor_dB,   \* the floor the user configured last
    f1, f2,     \* self.f1, self.f2
    N, t, x, y, y_i, cmplx, title_str, H_str,   \* the fields calc assigns
    attrs,      \* which of these attributes exist
    plot,       \* what the canvas shows
    logged,     \* the error the last calc logged, or "none"
    raised,     \* the exception the last handler raised, or "none"
    filt,       \* the scipy routine the last calc called, or "none"
    rnd,        \* the random draws the last calc consumed
    op,         \* the handler that ran last
    spec_edited,    \* self.spec_edited
    focus,      \* the frequency field that has the input focus (1, 2), or 0
    text,       \* the texts of ledFreq1 and ledFreq2
    event       \* the event eventFilter received last

vars ==
    <<ui, fil, enabled, bottom, floor_dB, f1, f2, N, t, x, y, y_i, cmplx,
      title_str, H_str, attrs, plot, logged, raised, filt, rnd, op,
      spec_edited, focus, text, event>>

\* the fields of the widget as one record
Self ==
    [N |-> N, t |-> t, x |-> x, y |-> y, y_i |-> y_i, cmplx |-> cmplx,
     title_str |-> title_str, H_str |-> H_str, attrs |-> attrs]

\* the object before its first calc: none of the fields exists
NoFields ==
    [N |-> 0, t |-> <<>>, x |-> <<>>, y |-> <<>>, y_i |-> <<>>,
     cmplx |-> FALSE, title_str |-> "", H_str |-> "", attrs |-> {}]

SetSelf(s) ==
    /\ N' = s.N
    /\ t' = s.t
    /\ x' = s.x
    /\ y' = s.y
    /\ y_i' = s.y_i
    /\ cmplx' = s.cmplx
    /\ title_str' = s.title_str
    /\ H_str' = s.H_str
    /\ attrs' = s.attrs

\* a text of a frequency field: <<v>> shows the number v, <<>> is a text that
\* is no number
Shown(v) == <<v>>

\* params['FMT'].format(v), the rounded display '{:.3g}': three significant
\* digits
Format(v) ==
    IF Abs(v) < 1000 THEN v
    ELSE IF Abs(v) < 10000 THEN 10 * ((v + 5) \div 10)
    ELSE 100 * ((v + 50) \div 100)

\* load_fs() on the texts txt with the focus foc, the stored frequencies fa,
\* fb and the sampling frequency fS: the field that has the focus shows its
\* value with full precision, without focus both show the rounded values
load_fs(txt, foc, fa, fb, fS) ==
    IF foc = 1 THEN [txt EXCEPT ![1] = Shown(fa * fS)]
    ELSE IF foc = 2 THEN [txt EXCEPT ![2] = Shown(fb * fS)]
    ELSE <<Shown(Format(fa * fS)), Shown(Format(fb * fS))>>

\* safe_eval(source.text(), fallback, return_type='float'): the number the
\* text shows, the fallback for a text that is no number
SafeEval(fieldText, fallback) ==
    IF fieldText = <<>> THEN fallback ELSE fieldText[1]

\* the value a frequency field holds after _store_entry: the evaluated text
\* normalized to the sampling frequency
Normalized(fieldText, fOld, fS) == SafeEval(fieldText, fOld * fS) \div fS

\* _store_entry without the test of self.spec_edited
StoreEntryAlways(edited, k, txt, fa, fb, fS) ==
    [f1 |-> IF k = 1 THEN Normalized(txt[1], fa, fS) ELSE fa,
     f2 |-> IF k = 2 THEN Normalized(txt[2], fb, fS) ELSE fb,
     text |-> [txt EXCEPT ![k] =
                  Shown(Format(Normalized(txt[k], IF k = 1 THEN fa ELSE fb,
                                          fS) * fS))],
     spec_edited |-> FALSE,
     drawn |-> TRUE]

\* _store_entry(source) for the field k with self.spec_edited = edited: the
\* values of self.f1, self.f2, the texts and the flag it leaves, and whether
\* it goes on to self.draw()
StoreEntry(edited, k, txt, fa, fb, fS) ==
    IF edited
    THEN [f1 |-> IF k = 1 THEN Normalized(txt[1], fa, fS) ELSE fa,
          f2 |-> IF k = 2 THEN Normalized(txt[2], fb, fS) ELSE fb,
          text |-> [txt EXCEPT ![k] =
                       Shown(Format(Normalized(txt[k],
                                               IF k = 1 THEN fa ELSE fb,
                                               fS) * fS))],
          spec_edited |-> FALSE,
          drawn |-> TRUE]
    ELSE [f1 |-> fa, f2 |-> fb, text |-> txt, spec_edited |-> edited,
          drawn |-> FALSE]

\* draw() with the stored frequencies fa, fb, the texts txt and the focus
\* foc: calc and draw_impz when the toolbar is enabled (en), nothing
\* otherwise; an exception of calc ends the handler before draw_impz, whose
\* first statements call load_fs
draw_with(en, u, fl, fa, fb, txt, foc, draws, handler) ==
    IF ~en
    THEN /\ op' = IF handler = "store" THEN "store" ELSE "skip"
         /\ text' = txt
         /\ UNCHANGED <<bottom, N, t, x, y, y_i, cmplx, title_str, H_str,
                        attrs, plot, logged, raised, filt, rnd>>
    ELSE \E c \in {calc(Self, u, fl, fa, fb, draws)} :
         \E d \in {draw_impz(c.self, u, bottom, plot)} :
             /\ op' = IF handler = "construct"
                       THEN (IF c.raised # "none" \/ d.raised # "none"
                             THEN "failed" ELSE "draw")
                       ELSE handler
             /\ SetSelf(c.self)
             /\ logged' = c.logged
             /\ filt' = c.filt
             /\ rnd' = draws
             /\ IF c.raised # "none"
                THEN /\ raised' = c.raised
                     /\ text' = txt
                     /\ UNCHANGED <<bottom, plot>>
                ELSE /\ raised' = d.raised
                     /\ text' = load_fs(txt, foc, fa, fb, fl.f_S)
                     /\ bottom' = d.bottom
                     /\ plot' = d.plot

\* draw() as the handlers of the signals call it
draw(en, u, fl, draws, handler) ==
    draw_with(en, u, fl, f1, f2, text, focus, draws, handler)

\* no event has reached eventFilter
NoEvent == [type |-> "none", source |-> 0, key |-> "none"]

\* the state in which _construct_UI reaches its last statement, self.draw()
Init ==
    /\ \E r \in Requests : ui = r.ui /\ fil = r.fil
    /\ enabled \in BOOLEAN
    /\ floor_dB \in Floors
    /\ bottom = floor_dB
    /\ f1 = 1
    /\ f2 = 2
    /\ N = NoFields.N
    /\ t = NoFields.t
    /\ x = NoFields.x
    /\ y = NoFields.y
    /\ y_i = NoFields.y_i
    /\ cmplx = NoFields.cmplx
    /\ title_str = NoFields.title_str
    /\ H_str = NoFields.H_str
    /\ attrs = NoFields.attrs
    /\ plot = NoPlot
    /\ logged = "none"
    /\ raised = "none"
    /\ filt = "none"
    /\ rnd = <<>>
    /\ op = "new"
    /\ spec_edited = FALSE
    /\ focus = 0
    /\ text = <<Shown(Format(f1 * fil.f_S)), Shown(Format(f2 * fil.f_S))>>
    /\ event = NoEvent

\* the widget exists: its constructor has returned without an exception
Alive == op \notin {"new", "failed"}

\* _construct_UI: self.draw(), the initial calculation and drawing
Construct ==
    /\ op = "new"
    /\ \E draws \in DrawsOf(ui, TotalPoints(ui, fil)) :
         draw(enabled, ui, fil, draws, "construct")
    /\ UNCHANGED <<ui, fil, enabled, floor_dB, f1, f2, spec_edited, focus,
                   event>>

\* process_signals({'draw': ..}) or ledN_points.editingFinished: a control
\* of the UI or the filter dictionary has changed and draw() runs
Draw ==
    /\ Alive
    /\ enabled
    /\ \E r \in Requests :
         /\ ui' = r.ui
         /\ fil' = r.fil
         /\ \E draws \in DrawsOf(r.ui, TotalPoints(r.ui, r.fil)) :
              draw(enabled, r.ui, r.fil, draws, "draw")
    /\ UNCHANGED <<enabled, floor_dB, f1, f2, spec_edited, focus, event>>

\* process_signals({'update_view': ..}) or {'home': ..}: update_view()
UpdateView ==
    /\ Alive
    /\ \E d \in {draw_impz(Self, ui, bottom, plot)} :
           /\ raised' = d.raised
           /\ bottom' = d.bottom
           /\ plot' = d.plot
    /\ text' = load_fs(text, focus, f1, f2, fil.f_S)
    /\ op' = "update_view"
    /\ UNCHANGED <<ui, fil, enabled, floor_dB, f1, f2, N, t, x, y, y_i, cmplx,
                   title_str, H_str, attrs, logged, filt, rnd, spec_edited,
                   focus, event>>

\* process_signals({'enabled': e}): enable_ui(e), after the toolbar has set
\* its own flag
EnableUi(e) ==
    /\ Alive
    /\ enabled' = e
    /\ IF e
       THEN \E draws \in DrawsOf(ui, TotalPoints(ui, fil)) :
              draw(e, ui, fil, draws, "draw")
       ELSE /\ op' = "enable_ui"
            /\ UNCHANGED <<bottom, N, t, x, y, y_i, cmplx, title_str, H_str,
                           attrs, plot, logged, raised, filt, rnd, text>>
    /\ UNCHANGED <<ui, fil, floor_dB, f1, f2, spec_edited, focus, event>>

\* the user configures the floor of the log display
SetLogBottom(v) ==
    /\ Alive
    /\ floor_dB' = v
    /\ bottom' = v
    /\ op' = "config"
    /\ UNCHANGED <<ui, fil, enabled, f1, f2, N, t, x, y, y_i, cmplx, title_str,
                   H_str, attrs, plot, logged, raised, filt, rnd, spec_edited,
                   focus, text, event>>

\* the fields of the response and the plot, which only draw() changes
Drawn == <<bottom, N, t, x, y, y_i, cmplx, title_str, H_str, attrs, plot,
           logged, raised, filt, rnd>>

\* the keys eventFilter tells apart; "Char" is any other key, which the line
\* edit turns into an edit of its text
Keys == {"Return", "Enter", "Escape", "Char"}

\* the texts a user types into a frequency field: one of the modelled
\* frequencies in Hz, or a text that is no number
Typed(fS) == {Shown(v * fS) : v \in FreqVals} \cup {<<>>}

\* _store_entry(source) in the handler of an event: the assignments, and
\* draw() with the focus foc the application has during the event
Store(k, edited, foc) ==
    \E s \in {StoreEntry(edited, k, text, f1, f2, fil.f_S)} :
        /\ f1' = s.f1
        /\ f2' = s.f2
        /\ spec_edited' = s.spec_edited
        /\ IF s.drawn
           THEN \E draws \in DrawsOf(ui, TotalPoints(ui, fil)) :
                    draw_with(enabled, ui, fil, s.f1, s.f2, s.text, foc,
                              draws, "store")
           ELSE /\ text' = s.text
                /\ op' = "event"
                /\ UNCHANGED Drawn

\* eventFilter(source, QEvent.FocusIn): the field k gains the focus
FocusIn(k) ==
    /\ Alive
    /\ focus = 0
    /\ focus' = k
    /\ event' = [type |-> "FocusIn", source |-> k, key |-> "none"]
    /\ spec_edited' = FALSE
    /\ text' = load_fs(text, k, f1, f2, fil.f_S)
    /\ op' = "event"
    /\ UNCHANGED <<ui, fil, enabled, floor_dB, f1, f2>>
    /\ UNCHANGED Drawn

\* eventFilter(source, QEvent.KeyPress): a key is pressed in the field k,
\* which has the focus; the line edit then handles a key that edits the text
KeyPress(k, key) ==
    /\ Alive
    /\ focus = k
    /\ event' = [type |-> "KeyPress", source |-> k, key |-> key]
    /\ IF key \in {"Return", "Enter"}
       THEN Store(k, TRUE, focus)
       ELSE IF key = "Escape"
       THEN /\ spec_edited' = FALSE
            /\ text' = [text EXCEPT ![k] =
                           Shown(Format((IF k = 1 THEN f1 ELSE f2)
                                        * fil.f_S))]
            /\ op' = "event"
            /\ UNCHANGED <<f1, f2>>
            /\ UNCHANGED Drawn
       ELSE /\ spec_edited' = TRUE
            /\ \E v \in Typed(fil.f_S) : text' = [text EXCEPT ![k] = v]
            /\ op' = "event"
            /\ UNCHANGED <<f1, f2>>
            /\ UNCHANGED Drawn
    /\ UNCHANGED <<ui, fil, enabled, floor_dB, focus>>

\* eventFilter(source, QEvent.FocusOut): the field k loses the focus, to a
\* widget that is not monitored
FocusOut(k) ==
    /\ Alive
    /\ focus = k
    /\ focus' = 0
    /\ event' = [type |-> "FocusOut", source |-> k, key |-> "none"]
    /\ Store(k, spec_edited, 0)
    /\ UNCHANGED <<ui, fil, enabled, floor_dB>>

Next ==
    \/ Construct
    \/ Draw
    \/ UpdateView
    \/ \E e \in BOOLEAN : EnableUi(e)
    \/ \E v \in Floors : SetLogBottom(v)

Spec == Init /\ [][Next]_vars

\* the widget with its frequency fields in use: the configurations in which
\* the stimulus depends on a frequency or the sampling frequency is not 1,
\* the events of the two fields, and the handlers that redraw meanwhile
InitEdit ==
    /\ Init
    /\ ui.stim \in {"Cos", "Sine"} \/ fil = FilFir3

NextEdit ==
    \/ Construct
    \/ \E k \in {1, 2} : FocusIn(k)
    \/ \E k \in {1, 2}, key \in Keys : KeyPress(k, key)
    \/ \E k \in {1, 2} : FocusOut(k)
    \/ UpdateView
    \/ \E e \in BOOLEAN : EnableUi(e)

SpecEdit == InitEdit /\ [][NextEdit]_vars

\* ------------------------------------------------------------------------
\* Properties
\* ------------------------------------------------------------------------

\* the last handler was draw() with the toolbar enabled: calc has run on the
\* settings ui and the filter fil
Drew == op \in {"draw", "failed"}

\* the last handler was draw() and its calc returned (the IndexError is the
\* one exception calc raises)
Returned == Drew /\ raised # "IndexError"

\* the last handler was draw() and its calc reached the end
Simulated == Drew /\ filt # "none"

\* a configuration calc does not accept
InvalidConfig(u, fl) ==
    \/ u.stim \notin StimNames
    \/ Min(Len(fl.ba[2]), Len(fl.ba[1])) < 2

\* the fields a simulation presents
Result(s) == <<s.t, s.x, s.y, s.y_i, s.title_str, s.H_str>>

\* C1: after any sequence of calc calls, successful or failing, the stored
\* time axis, stimulus and response have the same length N, the resolved
\* point count plus the start offset of the latest request.
C1_SameLength ==
    (Returned /\ {"x", "y"} \subseteq attrs)
        => /\ N = TotalPoints(ui, fil)
           /\ Len(t) = N
           /\ Len(x) = N
           /\ Len(y) = N

\* C2: a calc that fails, because min(len(a), len(b)) < 2 or because the
\* stimulus kind is unknown, changes none of the result fields N, t, x, y,
\* y_i, cmplx, title_str and H_str.
C2_NoPartialResult ==
    [][(op' \in {"draw", "failed"} /\ logged' # "none")
          => UNCHANGED <<N, t, x, y, y_i, cmplx, title_str, H_str>>]_vars

\* C3: a draw with an invalid configuration (a stimulus kind calc does not
\* know, or coefficient arrays with min(len(a), len(b)) < 2) ends in a
\* reported error and never in an exception, the first draw of the widget
\* included.
C3_ReportedError ==
    (Drew /\ InvalidConfig(ui, fil))
        => (raised = "none" /\ logged # "none")

\* the identity filter with n coefficients each: b = [1, 0, ..], a = [1, 0, ..],
\* no second-order sections, not anti-causal
IsIdentity(fl, n) ==
    /\ Len(fl.ba[1]) = n
    /\ Len(fl.ba[2]) = n
    /\ \A k \in 1..n : /\ fl.ba[1][k] = (IF k = 1 THEN <<1, 0>> ELSE C0)
                       /\ fl.ba[2][k] = (IF k = 1 THEN 1 ELSE 0)
    /\ fl.sos = <<>>
    /\ ~fl.zpkA

\* C4 as stated: for the identity filter b = [1], a = [1] and any stimulus
\* the simulation succeeds on the causal path and yields y == x.
C4_IdentityOneCoefficient ==
    (Drew /\ IsIdentity(fil, 1) /\ ui.stim \in StimNames)
        => (logged = "none" /\ filt = "lfilter" /\ y = x)

\* C4, amended: for the identity filter in the shortest form calc accepts,
\* b = [1, 0], a = [1, 0], the simulation succeeds on the causal path and
\* yields y == x sample for sample for every stimulus but the settling
\* error, where y == x - 1 (the DC gain is subtracted); with b = [1], a = [1]
\* calc reports "No proper filter coefficients" and filters nothing.
C4_IdentityPadded ==
    /\ (Drew /\ IsIdentity(fil, 2) /\ ui.stim \in StimNames)
          => /\ logged = "none"
             /\ filt = "lfilter"
             /\ ~cmplx
             /\ Len(y) = Len(x)
             /\ \A n \in 1..Len(x) :
                  y[n] = (IF ui.stim = "StepErr" THEN x[n] - Scale ELSE x[n])
    /\ (Drew /\ IsIdentity(fil, 1) /\ ui.stim \in StimNames)
          => /\ logged = "No proper filter coefficients"
             /\ filt = "none"

\* a sine through the padded identity filter has come out unchanged
C4_Witness ==
    /\ op = "draw"
    /\ IsIdentity(fil, 2)
    /\ ui.stim = "Sine"
    /\ filt = "lfilter"
    /\ Len(x) > 2
    /\ y = x
    /\ \E n, m \in 1..Len(y) : y[n] # y[m]

\* the response of the routine the priority order selects, applied to the
\* stored stimulus, after the settling-error step
ResponseByPriority ==
    LET xc  == ToComplex(x)
        raw == IF fil.sos # <<>> /\ ~fil.zpkA
               THEN sosfilt(fil.sos, xc)
               ELSE IF fil.zpkA
               THEN filtfilt(fil.ba[1], fil.ba[2], xc)
               ELSE lfilter(fil.ba[1], fil.ba[2], xc)
    IN  IF ui.stim = "StepErr"
        THEN [n \in 1..Len(raw) |->
                <<raw[n][1] - Scale * DcGain(fil.ba[1], fil.ba[2]), raw[n][2]>>]
        ELSE raw

\* C5: the filtering mode follows the priority order for every combination
\* of (sos empty or not, anti-causal or not): the cascade of second-order
\* sections iff sos is not empty and the filter is not anti-causal;
\* zero-phase (b, a) filtering iff the filter is anti-causal, whatever sos;
\* single-pass causal (b, a) filtering otherwise; and the response stored is
\* that of exactly this one routine.
C5_ModePriority ==
    Simulated
        => /\ filt \in {"sosfilt", "filtfilt", "lfilter"}
           /\ (filt = "sosfilt") <=> (fil.sos # <<>> /\ ~fil.zpkA)
           /\ (filt = "filtfilt") <=> fil.zpkA
           /\ (filt = "lfilter") <=> (fil.sos = <<>> /\ ~fil.zpkA)
           /\ y = RealPart(ResponseByPriority)
           /\ cmplx => y_i = ImagPart(ResponseByPriority)

\* an anti-causal filter with second-order sections has been filtered
\* zero-phase, with a response the cascade would not have given
C5_Witness ==
    /\ op = "draw"
    /\ fil.zpkA
    /\ fil.sos # <<>>
    /\ filt = "filtfilt"
    /\ y # RealPart(sosfilt(fil.sos, ToComplex(x)))

\* C6: with N_points == 0 an IIR filter resolves to 100 points and an FIR
\* filter to min(len(b), 100); an N_points other than 0 is used unchanged;
\* in every case the total simulated length is the resolved count plus
\* N_start.
C6_PointCount ==
    LET resolved ==
          IF ui.N_points = 0
          THEN IF fil.ft = "IIR"
               THEN 100
               ELSE Min(Len(fil.ba[1]), 100)
          ELSE ui.N_points
    IN  /\ Drew => (N = resolved + ui.N_start /\ Len(t) = N)
        /\ Simulated => (Len(x) = N /\ Len(y) = N)

\* an FIR filter with more than 100 coefficients has been simulated with the
\* automatic point count and a start offset
C6_Witness ==
    /\ op = "draw"
    /\ filt = "lfilter"
    /\ ui.N_points = 0
    /\ ui.N_start > 0
    /\ fil.ft = "FIR"
    /\ Len(fil.ba[1]) > 100
    /\ N = 100 + ui.N_start
    /\ Len(y) = N

\* the stimulus of the current request without noise and without DC offset
CleanWave == Waveform(ui, TimeAxis(TotalPoints(ui, fil), fil.f_S), f1, f2)

\* C7: the DC offset is governed by the visibility of the DC field: when it
\* is visible, DC is added to every sample of x, the startup region
\* included; when it is not, x carries no DC offset whatever the value of DC.
C7_DcGoverned ==
    (Simulated /\ ui.noise = "none")
        => /\ Len(x) = Len(CleanWave)
           /\ \A n \in 1..Len(x) :
                x[n] = CleanWave[n]
                       + (IF ui.ledDC_visible THEN ui.DC * Scale ELSE 0)

\* the stimulus of the current request without noise: the waveform and the
\* DC offset calc adds
NoiseFree == [n \in 1..Len(CleanWave) |-> CleanWave[n] + ui.DC * Scale]

\* C8: additive noise (gauss or uniform) changes only samples x[n] with
\* n >= N_start; the samples in [0, N_start) keep their noise-free value, and
\* without noise no sample is perturbed.
C8_NoiseSparesStartup ==
    Simulated
        => /\ Len(x) = Len(NoiseFree)
           /\ \A n \in 1..Len(x) :
                (n <= ui.N_start \/ ui.noise \notin {"gauss", "uniform"})
                    => x[n] = NoiseFree[n]

\* gaussian noise has changed a sample behind a startup region it has left
\* alone
C8_Witness ==
    /\ op = "draw"
    /\ filt = "lfilter"
    /\ ui.noise = "gauss"
    /\ ui.N_start > 0
    /\ x[ui.N_start] = NoiseFree[ui.N_start]
    /\ x[ui.N_start + 1] # NoiseFree[ui.N_start + 1]

\* C9: requests are independent of each other: without noise, the result
\* presented after a request (t, x, y, y_i, title_str, H_str) is a function of
\* that request's inputs alone, whatever requests came before, so it is the
\* result the same request gives on a widget without history.
C9_Independent ==
    (Returned /\ ui.noise = "none")
        => Result(Self) = Result(calc(NoFields, ui, fil, f1, f2, <<>>).self)

\* C10: in log display the drawn y and, for a complex response, y_i are
\* clamped from below by the configured floor floor_dB, after any sequence
\* of draws in log or linear display.
C10_ConfiguredFloor ==
    (op \in {"draw", "update_view"} /\ raised = "none" /\ plot.drawn
     /\ ui.chkLog /\ ui.chkPltResp)
        => /\ plot.y = From([n \in 1..Len(y) |-> LogSample(y[n], floor_dB)],
                            ui.N_start)
           /\ cmplx => plot.y_i =
                         From([n \in 1..Len(y_i) |-> LogSample(y_i[n], floor_dB)],
                              ui.N_start)


\* the last event of eventFilter was a key that edits the text of its field
KeyPressed == event.type = "KeyPress" /\ event.key = "Char"

\* the step is eventFilter passing the test of _store_entry: the field fNew
\* holds the number its text showed, normalized to the sampling frequency
\* (its old value fOld for a text that is no number), the flag is reset and
\* draw() has run: with the toolbar enabled the result is the one calc gives
\* for the new frequencies, otherwise it is left alone
StoredAs(fieldText, fOld, fNew) ==
    /\ fieldText # <<>> => fNew * fil.f_S = fieldText[1]
    /\ fieldText = <<>> => fNew = fOld
    /\ ~spec_edited'
    /\ enabled => /\ rnd' \in DrawsOf(ui, TotalPoints(ui, fil))
                  /\ Self' = calc(Self, ui, fil, f1', f2', rnd').self
    /\ ~enabled => UNCHANGED Drawn

\* a step of eventFilter under the edit protocol of the frequency fields
EditStep ==
    /\ event'.type = "FocusOut" => (op' = "store" <=> spec_edited)
    /\ event.key \in {"Return", "Enter"} /\ event'.type = "FocusOut"
           => op' = "event"
    /\ op' = "store"
           => /\ event'.source = 1
                     => StoredAs(text[1], f1, f1') /\ UNCHANGED f2
              /\ event'.source = 2
                     => StoredAs(text[2], f2, f2') /\ UNCHANGED f1
    /\ op' = "event" => UNCHANGED <<f1, f2>> /\ UNCHANGED Drawn
    /\ event'.key = "Escape" => UNCHANGED <<f1, f2>> /\ ~spec_edited'

\* C11: edit protocol of the frequency fields: when a monitored field loses
\* the focus, its stored normalized frequency (f1 or f2) is updated and the
\* recalculation is triggered only if a key was pressed in the field since
\* the last FocusIn, store or Escape (spec_edited is true); otherwise f1 and
\* f2 are unchanged and nothing is recalculated. Escape leaves f1 and f2
\* unchanged, and after any store or Escape spec_edited is false, so Enter
\* followed by FocusOut stores once.
C11_EditProtocol ==
    [][/\ op' \in {"event", "store"} => EditStep
       /\ spec_edited' <=> KeyPressed']_vars

\* the first field has lost the focus after an edit: its new frequency is
\* stored and the response to the cosine of that frequency is recalculated
C11_Witness ==
    /\ event = [type |-> "FocusOut", source |-> 1, key |-> "none"]
    /\ op = "store"
    /\ enabled
    /\ ui.stim = "Cos"
    /\ f1 = 2
    /\ filt # "none"
    /\ ~spec_edited

====
